---- MODULE Spec2Model ----
(***************************************************************************)
(* bdc-stac, src/bdc_stac/routes.py: the request lifecycle of the STAC API *)
(* (search-request normalisation, pagination links, error handlers, the    *)
(* after_request compression filter and the session teardown).             *)
(*                                                                         *)
(* Strings are TLA+ strings (joined with \o); header values whose          *)
(* characters matter (Accept-Encoding) are sequences of one-character      *)
(* strings.  Python None is the empty sequence <<>> and a present value v  *)
(* is <<v>>.  A JSON scalar is [int |-> n], [str |-> s] or [null |-> TRUE].*)
(***************************************************************************)
EXTENDS Integers, Sequences, FiniteSets, TLC

\* ---------------------------------------------------------------- bounds
\* Page numbers a client supplies range over -1..MaxPage.
MaxPage == 2
\* The catalog matches 0..MaxTotal items for a query.
MaxTotal == 3
\* How many times one response is passed through the filter (SpecFilter).
MaxPasses == 2

\* ------------------------------------------------------ program constants
\* routes.py:63  len(response.get_data()) < 500
COMPRESS_MIN == 500
\* routes.py:344/354  request_json.get("page", 1), request.args.get("page", 1)
DEFAULT_PAGE == 1
\* routes.py:345/355  request_json.get("limit", 10), request.args.get("limit", 10)
DEFAULT_LIMIT == 10

\* routes.py:21  BASE_URL = BDC_STAC_BASE_URL
BASE_URL == "http://stac"

None == <<>>
Some(v) == <<v>>

\* ------------------------------------------------------------ python text
Digit == <<"0", "1", "2", "3", "4", "5", "6", "7", "8", "9">>

RECURSIVE NatStr(_)
NatStr(n) == IF n < 10 THEN Digit[n + 1] ELSE NatStr(n \div 10) \o Digit[(n % 10) + 1]

\* str(x) of a Python int
IntStr(n) == IF n < 0 THEN "-" \o NatStr(-n) ELSE NatStr(n)

\* sep.join(xs) of a list of strings
RECURSIVE PyJoin(_, _)
PyJoin(sep, xs) ==
    IF xs = <<>> THEN ""
    ELSE IF Len(xs) = 1 THEN xs[1]
    ELSE xs[1] \o sep \o PyJoin(sep, Tail(xs))

\* [str(x) for x in xs]
StrEach(xs) == [i \in 1..Len(xs) |-> IntStr(xs[i])]

\* The integers whose literals the model's int() recognises.
IntDomain == (0 - 2)..(DEFAULT_LIMIT + MaxPage + 2)

\* The literals int(s) accepts for n: optional sign, surrounding blanks.
IntLiterals(n) == {IntStr(n), " " \o IntStr(n)} \cup (IF n >= 0 THEN {"+" \o IntStr(n)} ELSE {})

\* <<literal, value>> for every literal int() accepts.
IntLiteralTable == UNION {{<<l, n>> : l \in IntLiterals(n)} : n \in IntDomain}

\* int(s) of a string: [ok, v]; not ok is ValueError.
PyIntStr(s) ==
    IF \E e \in IntLiteralTable : e[1] = s
    THEN [ok |-> TRUE, v |-> (CHOOSE e \in IntLiteralTable : e[1] = s)[2], err |-> "none"]
    ELSE [ok |-> FALSE, v |-> 0, err |-> "ValueError"]

\* int(x) of a JSON scalar: an int is itself, a string is parsed, null is TypeError.
PyIntJson(x) ==
    IF "int" \in DOMAIN x THEN [ok |-> TRUE, v |-> x.int, err |-> "none"]
    ELSE IF "str" \in DOMAIN x THEN PyIntStr(x.str)
    ELSE [ok |-> FALSE, v |-> 0, err |-> "TypeError"]

\* -------------------------------------------------- query-string MultiDict
\* request.args: a sequence of <<key, value>> pairs in arrival order, one value a key.
ArgKeys(args) == {args[i][1] : i \in 1..Len(args)}

\* args.get(k, None)
ArgGet(args, k) ==
    IF k \in ArgKeys(args)
    THEN Some(args[CHOOSE i \in 1..Len(args) : args[i][1] = k][2])
    ELSE None

\* args[k] = v : replaces the key's value where it stands, else appends the key.
ArgSet(args, k, v) ==
    IF k \in ArgKeys(args)
    THEN [i \in 1..Len(args) |-> IF args[i][1] = k THEN <<k, v>> ELSE args[i]]
    ELSE Append(args, <<k, v>>)

\* ------------------------------------------------------------ input values
\* bbox values as a client writes them in a JSON body: one well-formed box, one of the
\* wrong cardinality.
BBoxLists == {<<0 - 60, 0 - 10, 0 - 50, 0>>, <<1, 2>>}
IdLists == {<<"a", "b">>}
CollectionLists == {<<"c1", "c2">>}
Datetimes == {"2020"}

\* The lists of tokens whose comma-joined form occurs as a parameter value.
TokenLists == {StrEach(b) : b \in BBoxLists} \cup IdLists \cup CollectionLists

\* <<value, quoted value>> for the values that hold a comma.
QuoteTable == {<<PyJoin(",", t), PyJoin("%2C", t)>> : t \in TokenLists}

\* werkzeug url_quote_plus of a value: "," is not a safe character and becomes %2C.
Quote(v) ==
    IF \E e \in QuoteTable : e[1] = v
    THEN (CHOOSE e \in QuoteTable : e[1] = v)[2]
    ELSE v

\* werkzeug url_encode(args): "&".join(f"{quote(k)}={quote_plus(str(v))}")
url_encode(args) == PyJoin("&", [i \in 1..Len(args) |-> args[i][1] \o "=" \o Quote(args[i][2])])

\* f"{BASE_URL}{path}{f'?{url_encode(args)}' if len(args) > 0 else ''}"
Href(path, args) == BASE_URL \o path \o (IF Len(args) > 0 THEN "?" \o url_encode(args) ELSE "")

SearchPath == "/search"
ItemsPath == "/collections/c1/items"

\* Option of a set of values: absent, or <<v>>.
Opt(S) == {None} \cup {Some(v) : v \in S}

\* A query string from optional fields, in the order a client writes them.
ArgsOf(fields) ==
    LET keys == <<"bbox", "datetime", "ids", "collections", "page", "limit", "access_token">>
        F[i \in 0..Len(keys)] ==
            IF i = 0 THEN <<>>
            ELSE IF fields[keys[i]] = None THEN F[i - 1]
            ELSE Append(F[i - 1], <<keys[i], fields[keys[i]][1]>>)
    IN F[Len(keys)]

PageInts == (0 - 1)..MaxPage
LimitInts == {0, 1}
PageStrs == {IntStr(n) : n \in PageInts} \cup {"abc"}
LimitStrs == {IntStr(n) : n \in LimitInts} \cup {"x"}

\* datetime and collections, each given or not.
Scopes == [datetime : Opt(Datetimes), collections : Opt(CollectionLists)]

\* GET /search query strings.
SearchArgs ==
    {ArgsOf([bbox |-> b, datetime |-> s.datetime, ids |-> i,
             collections |-> IF s.collections = None THEN None
                             ELSE Some(PyJoin(",", s.collections[1])),
             page |-> p, limit |-> l, access_token |-> None]) :
        b \in Opt({PyJoin(",", StrEach(x)) : x \in BBoxLists}),
        s \in Scopes,
        i \in Opt({PyJoin(",", x) : x \in IdLists}),
        p \in Opt(PageStrs),
        l \in Opt(LimitStrs)}

\* Query strings a POST /search may carry beside its body.
PostArgs == {<<>>, <<<<"access_token", "tok">>>>}

\* GET /collections/{id}/items query strings.
ItemsArgs ==
    {ArgsOf([bbox |-> b, datetime |-> None, ids |-> None, collections |-> None, page |-> p,
             limit |-> l, access_token |-> None]) :
        b \in Opt({PyJoin(",", StrEach(x)) : x \in BBoxLists}),
        p \in Opt(PageStrs),
        l \in Opt(LimitStrs)}

\* A JSON object from optional members.
JsonOf(fields) ==
    LET present == {k \in DOMAIN fields : fields[k] # None}
    IN [k \in present |-> fields[k][1]]

JsonPages == {[int |-> n] : n \in PageInts} \cup {[str |-> "2"], [str |-> "abc"], [null |-> TRUE]}
JsonLimits == {[int |-> n] : n \in LimitInts} \cup {[str |-> "x"]}

\* POST /search JSON bodies; intersects (POST only) comes without the other filters.
SearchBodies ==
    {JsonOf([bbox |-> b, datetime |-> s.datetime, ids |-> i, collections |-> s.collections,
             page |-> p, limit |-> l, intersects |-> None, query |-> None]) :
        b \in Opt(BBoxLists), s \in Scopes, i \in Opt(IdLists), p \in Opt(JsonPages),
        l \in Opt(JsonLimits)}
    \cup {JsonOf([page |-> p, limit |-> l, intersects |-> Some("geom"), query |-> Some("q")]) :
            p \in Opt(JsonPages), l \in Opt(JsonLimits)}

EmptyJson == JsonOf([page |-> None])

\* --------------------------------------------------------- header values
Chars(w) ==
    CASE w = "" -> <<>>
      [] w = "gzip" -> <<"g", "z", "i", "p">>
      [] w = "GZip" -> <<"G", "Z", "i", "p">>
      [] w = "br" -> <<"b", "r">>
      [] w = "gzi" -> <<"g", "z", "i">>
      [] w = "br, GZIP" -> <<"b", "r", ",", " ", "G", "Z", "I", "P">>
      [] w = "x-gzip" -> <<"x", "-", "g", "z", "i", "p">>

\* str.lower() of one character
LowerChar(c) ==
    CASE c = "G" -> "g" [] c = "Z" -> "z" [] c = "I" -> "i" [] c = "P" -> "p" [] OTHER -> c

\* s.lower()
PyLower(s) == [i \in 1..Len(s) |-> LowerChar(s[i])]

\* needle in hay (substring test)
PyIn(needle, hay) ==
    \E i \in 0..(Len(hay) - Len(needle)) : \A j \in 1..Len(needle) : hay[i + j] = needle[j]

\* werkzeug Headers: a sequence of <<name, value>> pairs.
HeaderHas(h, name) == \E i \in 1..Len(h) : h[i][1] = name

HeaderValues(h, name) == SelectSeq(h, LAMBDA e : e[1] = name)

\* headers.add(name, value): appends
HeaderAdd(h, name, value) == Append(h, <<name, value>>)

\* headers[name] = value: one entry of that name remains
HeaderSet(h, name, value) == Append(SelectSeq(h, LAMBDA e : e[1] # name), <<name, value>>)

\* ---------------------------------------------------------------- state
VARIABLES
    pc,          \* where the worker is in the request: idle, dispatch, raised, responded, filtered
    request,     \* flask.request of the request being handled
    exc,         \* the exception a view raised, to be handled
    response,    \* the response object (after the request: the one the client received)
    session,     \* .data.session, the scoped store session: none or active
    storeCalls,  \* the arguments of the catalog-store queries made for this request
    items,       \* the Page the store returned to the view
    chain,       \* the client: whether this request follows a next/prev link, and of what
    passes       \* how many times the response went through after_request

vars == <<pc, request, exc, response, session, storeCalls, items, chain, passes>>

NoExc == [cls |-> "none", code |-> 0, description |-> ""]

NoResponse ==
    [status |-> 0, payload |-> [kind |-> "none"], len |-> 0, gz |-> 0,
     direct_passthrough |-> FALSE, headers |-> <<>>]

NoRequest ==
    [route |-> "none", method |-> "GET", args |-> <<>>, is_json |-> FALSE, json |-> EmptyJson,
     accept_encoding |-> <<>>, exists |-> FALSE]

NoChain == [stage |-> "none", origin |-> None]

\* Serialised body lengths on either side of the compression threshold.
BodyLens == {COMPRESS_MIN - 1, COMPRESS_MIN}

\* flask make_response of a view's dict: jsonify, status 200 unless given.
MakeResponse(payload, status, n) ==
    [status |-> status, payload |-> payload, len |-> n, gz |-> 0, direct_passthrough |-> FALSE,
     headers |-> <<<<"Content-Type", "application/json">>, <<"Content-Length", IntStr(n)>>>>]

\* werkzeug abort(code, description)
Abort(code, description) == [cls |-> "HTTPException", code |-> code, description |-> description]

Raise(cls, description) == [cls |-> cls, code |-> 0, description |-> description]

\* ------------------------------------------------- stac_search: arguments
\* int(request.args.get(k, default)): the default is already an int.
ArgInt(args, k, default) ==
    IF ArgGet(args, k) = None THEN [ok |-> TRUE, v |-> default, err |-> "none"]
    ELSE PyIntStr(ArgGet(args, k)[1])

\* int(request_json.get(k, default))
JsonInt(j, k, default) ==
    IF k \in DOMAIN j THEN PyIntJson(j[k]) ELSE [ok |-> TRUE, v |-> default, err |-> "none"]

\* request_json.get(k, None)
JsonGet(j, k) == IF k \in DOMAIN j THEN Some(j[k]) ELSE None

\* ",".join([str(x) for x in bbox])
JoinBBox(bbox) == PyJoin(",", StrEach(bbox))

\* Mutant: joined with a blank after the comma.
JoinStrs_Blank(xs) == PyJoin(", ", xs)

\* ",".join([x for x in ids])
JoinStrs(xs) == PyJoin(",", xs)

\* int() failed: the ValueError / TypeError that leaves the view.
IntError(r) == Raise(r.err, "invalid literal for int()")

\* The POST branch: the JSON body's members, lists comma-joined.
SearchArgsPost(j) ==
    LET page == JsonInt(j, "page", DEFAULT_PAGE)
        limit == JsonInt(j, "limit", DEFAULT_LIMIT)
    IN  IF ~page.ok THEN [exc |-> IntError(page), q |-> None]
        ELSE IF ~limit.ok THEN [exc |-> IntError(limit), q |-> None]
        ELSE [exc |-> NoExc,
              q |-> Some([bbox |-> IF "bbox" \in DOMAIN j THEN Some(JoinBBox(j.bbox)) ELSE None,
                          datetime |-> JsonGet(j, "datetime"),
                          ids |-> IF "ids" \in DOMAIN j THEN Some(JoinStrs(j.ids)) ELSE None,
                          collections |-> IF "collections" \in DOMAIN j
                                          THEN Some(JoinStrs(j.collections)) ELSE None,
                          page |-> page.v,
                          limit |-> limit.v,
                          intersects |-> JsonGet(j, "intersects"),
                          query |-> JsonGet(j, "query")])]

\* The GET branch: the query-string parameters as they are.
SearchArgsGet(args) ==
    LET page == ArgInt(args, "page", DEFAULT_PAGE)
        limit == ArgInt(args, "limit", DEFAULT_LIMIT)
    IN  IF ~page.ok THEN [exc |-> IntError(page), q |-> None]
        ELSE IF ~limit.ok THEN [exc |-> IntError(limit), q |-> None]
        ELSE [exc |-> NoExc,
              q |-> Some([bbox |-> ArgGet(args, "bbox"),
                          datetime |-> ArgGet(args, "datetime"),
                          ids |-> ArgGet(args, "ids"),
                          collections |-> ArgGet(args, "collections"),
                          page |-> page.v,
                          limit |-> limit.v,
                          intersects |-> None,
                          query |-> None])]

\* What stac_search hands to get_collection_items, or the exception raised before.
SearchArguments(req) ==
    IF req.method = "POST"
    THEN IF req.is_json THEN SearchArgsPost(req.json)
         ELSE [exc |-> Abort(400, "POST Request must be an application/json"), q |-> None]
    ELSE SearchArgsGet(req.args)

\* ---------------------------------------------------------- catalog store
ValidBBoxStrs == {PyJoin(",", StrEach(b)) : b \in {x \in BBoxLists : Len(x) = 4}}

Min(a, b) == IF a < b THEN a ELSE b
Max(a, b) == IF a < b THEN b ELSE a

\* The Page of a paginated query over `total` matching items.
Paginate(page, per_page, total) ==
    [total |-> total, per_page |-> per_page, page |-> page,
     has_prev |-> page > 1, has_next |-> page * per_page < total,
     prev_num |-> page - 1, next_num |-> page + 1,
     returned |-> Max(0, Min(page * per_page, total) - Max((page - 1) * per_page, 0))]

NoPage == Paginate(0, 0, 0)

\* get_collection_items(**q): the store's answer when `total` items match and the
\* store is up or not.
get_collection_items(q, total, up) ==
    IF ~up THEN [exc |-> Raise("OperationalError", "connection refused"), items |-> NoPage]
    ELSE IF q.bbox # None /\ q.bbox[1] \notin ValidBBoxStrs
    THEN [exc |-> Raise("InvalidBoundingBoxError", "bbox is not valid"), items |-> NoPage]
    ELSE [exc |-> NoExc, items |-> Paginate(q.page, q.limit, total)]

\* get_collection_items(collection_id=..., **request.args.to_dict()): the store reads
\* page and limit from the keyword arguments itself.
ItemsArguments(args) == SearchArgsGet(args)

\* ------------------------------------------------------ pagination links
\* d[k] = v on a JSON object
JsonSet(j, k, v) == [x \in DOMAIN j \cup {k} |-> IF x = k THEN v ELSE j[x]]

\* Mutant: no deepcopy, the page is written into request_json itself.
LinkBody_NoCopy(request_json, num) ==
    [body |-> JsonSet(request_json, "page", [int |-> num]),
     request_json |-> JsonSet(request_json, "page", [int |-> num])]

\* body = deepcopy(request_json); body["page"] = num.  The body of the link, and
\* request_json afterwards.
LinkBody(request_json, num) ==
    [body |-> JsonSet(request_json, "page", [int |-> num]), request_json |-> request_json]

\* One link of stac_search: href from args as they stand, POST members when POST.
SearchLink(method, args, rel, lb) ==
    IF method = "POST"
    THEN [href |-> Href(SearchPath, args), rel |-> rel, body |-> lb.body, method |-> "POST",
          merge |-> TRUE]
    ELSE [href |-> Href(SearchPath, args), rel |-> rel]

\* Mutant: a fresh parameter set holding the page alone.
SearchPageArgs_Fresh(method, args, num) ==
    IF method = "GET" THEN <<<<"page", IntStr(num)>>>> ELSE args

\* args["page"] = num, done for GET only
SearchPageArgs(method, args, num) ==
    IF method = "GET" THEN ArgSet(args, "page", IntStr(num)) ELSE args

\* stac_search, from args = request.args.copy() on: gjson["links"], and request_json
\* as it is left.
SearchLinks(req, its) ==
    LET args1 == IF its.has_next THEN SearchPageArgs(req.method, req.args, its.next_num)
                 ELSE req.args
        lb1 == LinkBody(req.json, its.next_num)
        json1 == IF its.has_next /\ req.method = "POST" THEN lb1.request_json ELSE req.json
        args2 == IF its.has_prev THEN SearchPageArgs(req.method, args1, its.prev_num)
                 ELSE args1
        lb2 == LinkBody(json1, its.prev_num)
        json2 == IF its.has_prev /\ req.method = "POST" THEN lb2.request_json ELSE json1
    IN  [links |-> (IF its.has_next THEN <<SearchLink(req.method, args1, "next", lb1)>>
                    ELSE <<>>)
                   \o (IF its.has_prev THEN <<SearchLink(req.method, args2, "prev", lb2)>>
                       ELSE <<>>),
         request_json |-> json2]

\* Mutant: the prev link emitted under has_next.
ItemsLinks_PrevOnNext(req, its) ==
    LET args1 == IF its.has_next THEN ArgSet(req.args, "page", IntStr(its.next_num))
                 ELSE req.args
        args2 == IF its.has_next THEN ArgSet(args1, "page", IntStr(its.prev_num))
                 ELSE args1
    IN  (IF its.has_next THEN <<[href |-> Href(ItemsPath, args1), rel |-> "next"]>> ELSE <<>>)
        \o (IF its.has_next THEN <<[href |-> Href(ItemsPath, args2), rel |-> "prev"]>>
            ELSE <<>>)

\* collection_items, from args = request.args.copy() on: gjson["links"].
ItemsLinks(req, its) ==
    LET args1 == IF its.has_next THEN ArgSet(req.args, "page", IntStr(its.next_num))
                 ELSE req.args
        args2 == IF its.has_prev THEN ArgSet(args1, "page", IntStr(its.prev_num))
                 ELSE args1
    IN  (IF its.has_next THEN <<[href |-> Href(ItemsPath, args1), rel |-> "next"]>> ELSE <<>>)
        \o (IF its.has_prev THEN <<[href |-> Href(ItemsPath, args2), rel |-> "prev"]>>
            ELSE <<>>)

\* ---------------------------------------------------------------- requests
AcceptEncodings == {Chars(""), Chars("GZip")}

Req(route, method, args, is_json, json, ae, exists) ==
    [route |-> route, method |-> method, args |-> args, is_json |-> is_json, json |-> json,
     accept_encoding |-> ae, exists |-> exists]

\* The requests a client sends; `exists` is whether the collection, item or schema
\* file the path names is there.
Requests ==
    {Req("search", "GET", a, FALSE, EmptyJson, ae, TRUE) : a \in SearchArgs, ae \in AcceptEncodings}
    \cup {Req("search", "POST", a, TRUE, j, ae, TRUE) :
            a \in PostArgs, j \in SearchBodies, ae \in AcceptEncodings}
    \cup {Req("search", "POST", a, FALSE, EmptyJson, ae, TRUE) :
            a \in PostArgs, ae \in AcceptEncodings}
    \cup {Req("collection_items", "GET", a, FALSE, EmptyJson, ae, TRUE) :
            a \in ItemsArgs, ae \in AcceptEncodings}
    \cup {Req(r, "GET", <<>>, FALSE, EmptyJson, ae, e) :
            r \in {"collections_id", "items_id", "list_schema"}, ae \in AcceptEncodings,
            e \in BOOLEAN}
    \cup {Req("conformance", "GET", <<>>, FALSE, EmptyJson, ae, TRUE) : ae \in AcceptEncodings}

\* ----------------------------------------------------------------- actions
Init ==
    /\ pc = "idle"
    /\ request = NoRequest
    /\ exc = NoExc
    /\ response = NoResponse
    /\ session = "none"
    /\ storeCalls = <<>>
    /\ items = NoPage
    /\ chain = NoChain
    /\ passes = 0

\* A request arrives and its contexts are pushed.
Begin(req) ==
    /\ pc' = "dispatch"
    /\ request' = req
    /\ exc' = NoExc
    /\ response' = NoResponse
    /\ storeCalls' = <<>>
    /\ items' = NoPage
    /\ passes' = 0
    /\ UNCHANGED session

\* A client sends a request of its own.
Receive ==
    /\ pc = "idle"
    /\ request = NoRequest
    /\ \E req \in Requests : Begin(req)
    /\ chain' = NoChain

\* The client is done with the response it received; the worker is as it started.
Discard ==
    /\ pc = "idle"
    /\ request # NoRequest
    /\ request' = NoRequest
    /\ response' = NoResponse
    /\ exc' = NoExc
    /\ storeCalls' = <<>>
    /\ items' = NoPage
    /\ chain' = NoChain
    /\ passes' = 0
    /\ UNCHANGED <<pc, session>>

\* The view raised e.
Raised(e) ==
    /\ pc' = "raised"
    /\ exc' = e
    /\ UNCHANGED <<response, items, chain, passes>>

\* The view returned payload, built from the Page its: flask makes the response.
Returned(payload, its) ==
    /\ pc' = "responded"
    /\ items' = its
    /\ \E n \in BodyLens : response' = MakeResponse(payload, 200, n)
    /\ UNCHANGED <<exc, chain, passes>>

StoreCall(q) == [fn |-> "get_collection_items", q |-> q]

\* @current_app.route("/search", methods=["GET", "POST"])
stac_search ==
    /\ pc = "dispatch"
    /\ request.route = "search"
    /\ LET a == SearchArguments(request)
       IN  IF a.exc # NoExc
           THEN Raised(a.exc) /\ UNCHANGED <<request, session, storeCalls>>
           ELSE \E total \in 0..MaxTotal, up \in BOOLEAN :
                  LET r == get_collection_items(a.q[1], total, up)
                      l == SearchLinks(request, r.items)
                  IN  /\ session' = "active"
                      /\ storeCalls' = Append(storeCalls, StoreCall(a.q))
                      /\ IF r.exc # NoExc
                         THEN Raised(r.exc) /\ UNCHANGED request
                         ELSE /\ Returned([kind |-> "FeatureCollection", links |-> l.links,
                                           context |-> [matched |-> r.items.total,
                                                        returned |-> r.items.returned]],
                                          r.items)
                              /\ request' = [request EXCEPT !.json = l.request_json]

\* @current_app.route("/collections/<collection_id>/items", methods=["GET"])
collection_items ==
    /\ pc = "dispatch"
    /\ request.route = "collection_items"
    /\ session' = "active"
    /\ UNCHANGED request
    /\ LET a == ItemsArguments(request.args)
       IN  /\ storeCalls' = Append(storeCalls, StoreCall(a.q))
           /\ IF a.exc # NoExc
              THEN Raised(a.exc)
              ELSE \E total \in 0..MaxTotal, up \in BOOLEAN :
                     LET r == get_collection_items(a.q[1], total, up)
                     IN  IF r.exc # NoExc
                         THEN Raised(r.exc)
                         ELSE Returned([kind |-> "FeatureCollection",
                                        links |-> ItemsLinks(request, r.items),
                                        context |-> [matched |-> r.items.total,
                                                     returned |-> r.items.returned,
                                                     limit |-> r.items.per_page]],
                                       r.items)

\* @current_app.route("/collections/<collection_id>", methods=["GET"])
collections_id ==
    /\ pc = "dispatch"
    /\ request.route = "collections_id"
    /\ session' = "active"
    /\ storeCalls' = Append(storeCalls, [fn |-> "get_collections", q |-> None])
    /\ UNCHANGED request
    /\ IF ~request.exists
       THEN Raised(Abort(404, "Collection not found."))
       ELSE Returned([kind |-> "Collection"], NoPage)

\* @current_app.route("/collections/<collection_id>/items/<item_id>", methods=["GET"])
items_id ==
    /\ pc = "dispatch"
    /\ request.route = "items_id"
    /\ session' = "active"
    /\ storeCalls' = Append(storeCalls, [fn |-> "get_collection_items", q |-> None])
    /\ UNCHANGED request
    /\ IF request.exists
       THEN Returned([kind |-> "Feature"], NoPage)
       ELSE Raised(Abort(404, "Invalid item id 'i1' for collection 'c1'"))

\* @current_app.route("/conformance", methods=["GET"])
conformance ==
    /\ pc = "dispatch"
    /\ request.route = "conformance"
    /\ Returned([kind |-> "conformsTo"], NoPage)
    /\ UNCHANGED <<request, session, storeCalls>>

\* @current_app.route("/schemas/<string:schema_name>"): send_from_directory streams the
\* file, or raises NotFound.
list_schema ==
    /\ pc = "dispatch"
    /\ request.route = "list_schema"
    /\ UNCHANGED <<request, session, storeCalls>>
    /\ IF ~request.exists
       THEN Raised(Abort(404, "Not Found"))
       ELSE /\ pc' = "responded"
            /\ \E n \in BodyLens :
                 response' = [status |-> 200, payload |-> [kind |-> "file"], len |-> n, gz |-> 0,
                              direct_passthrough |-> TRUE,
                              headers |-> <<<<"Content-Type", "application/json">>,
                                            <<"Content-Length", IntStr(n)>>>>]
            /\ UNCHANGED <<exc, items, chain, passes>>

\* ----------------------------------------------------------- error handlers
\* Mutant: the handler for Exception takes everything.
FindErrorHandler_Generic(e) == "handle_exception"

\* flask picks the handler registered for the nearest class in the exception's MRO:
\* the one for InvalidBoundingBoxError before the one for Exception.
FindErrorHandler(e) ==
    IF e.cls = "InvalidBoundingBoxError" THEN "handle_exception_bbox" ELSE "handle_exception"

\* (body, status) returned by handle_exception(e)
HandleExceptionResult(e) ==
    IF e.cls = "HTTPException"
    THEN [body |-> [code |-> [int |-> e.code], description |-> e.description], status |-> e.code]
    ELSE [body |-> [code |-> [int |-> 500], description |-> "Internal Server Error"],
          status |-> 500]

\* (body, status) returned by handle_exception_bbox(e)
HandleExceptionBboxResult(e) ==
    [body |-> [code |-> [str |-> "400"], description |-> e.description], status |-> 400]

Handled(r) ==
    /\ pc' = "responded"
    /\ \E n \in BodyLens :
         response' = MakeResponse([kind |-> "error", body |-> r.body], r.status, n)
    /\ UNCHANGED <<request, exc, session, storeCalls, items, chain, passes>>

\* @current_app.errorhandler(Exception)
handle_exception ==
    /\ pc = "raised"
    /\ FindErrorHandler(exc) = "handle_exception"
    /\ Handled(HandleExceptionResult(exc))

\* @current_app.errorhandler(InvalidBoundingBoxError)
handle_exception_bbox ==
    /\ pc = "raised"
    /\ FindErrorHandler(exc) = "handle_exception_bbox"
    /\ Handled(HandleExceptionBboxResult(exc))

\* ------------------------------------------------------------ after_request
\* The lengths gzip.compress can give n bytes: 18 bytes of header and trailer around a
\* deflate stream of 2 bytes at best and n + 5 (one stored block) at worst.
GzipLens(n) == {20, n + 23}

\* Mutant: the threshold compared with <= instead of <.
Compresses_ThresholdOff(r, accept_encoding) ==
    ~(\/ r.status < 200
      \/ r.status >= 300
      \/ r.direct_passthrough
      \/ r.len <= COMPRESS_MIN
      \/ ~PyIn(Chars("gzip"), PyLower(accept_encoding))
      \/ HeaderHas(r.headers, "Content-Encoding"))

\* The negation of the early return's condition.
Compresses(r, accept_encoding) ==
    ~(\/ r.status < 200
      \/ r.status >= 300
      \/ r.direct_passthrough
      \/ r.len < COMPRESS_MIN
      \/ ~PyIn(Chars("gzip"), PyLower(accept_encoding))
      \/ HeaderHas(r.headers, "Content-Encoding"))

AddCors(h) ==
    HeaderAdd(HeaderAdd(HeaderAdd(h, "Access-Control-Allow-Origin", "*"),
                        "Access-Control-Allow-Headers", "Content-Type"),
              "Access-Control-Allow-Methods", "GET, POST")

\* response.set_data(gzip.compress(...)): the body, and the Content-Length werkzeug
\* keeps with it; then the two headers.
Compressed(r, z) ==
    [r EXCEPT !.len = z, !.gz = @ + 1,
              !.headers = HeaderSet(HeaderSet(HeaderSet(@, "Content-Length", IntStr(z)),
                                              "Content-Encoding", "gzip"),
                                    "Content-Length", IntStr(z))]

\* after_request(response), gzip giving z bytes
AfterRequestResult(r, accept_encoding, z) ==
    LET c == [r EXCEPT !.headers = AddCors(@)]
    IN  IF Compresses(c, accept_encoding) THEN Compressed(c, z) ELSE c

\* @current_app.after_request
after_request ==
    /\ pc = "responded"
    /\ pc' = "filtered"
    /\ \E z \in GzipLens(response.len) :
         response' = AfterRequestResult(response, request.accept_encoding, z)
    /\ passes' = passes + 1
    /\ UNCHANGED <<request, exc, session, storeCalls, items, chain>>

\* Mutant: the session is left as it is.
SessionRemove_Keep(s) == s

\* session.remove()
SessionRemove(s) == "none"

\* @current_app.teardown_appcontext

teardown_appcontext ==
    /\ pc = "filtered"
    /\ pc' = "idle"
    /\ session' = SessionRemove(session)
    /\ UNCHANGED <<request, exc, response, storeCalls, items, chain, passes>>

\* ------------------------------------------------------------------ client
\* The page numbers a next/prev link can carry: one beyond a page a client asked for,
\* itself one beyond a page of its own when it followed a link.
LinkInts == (0 - 2)..(MaxPage + 2)

\* The query strings a next/prev href of /search can spell: a client's own, page
\* overwritten.
LinkArgs ==
    SearchArgs \cup PostArgs
    \cup {ArgSet(a, "page", IntStr(n)) : a \in SearchArgs, n \in LinkInts}

\* <<args, href>> for the hrefs of path.
HrefPairs(path, argsets) == {<<a, Href(path, a)>> : a \in argsets}

\* href -> the query strings it spells.
HrefIndex(pairs) ==
    [h \in {e[2] : e \in pairs} |-> {e[1] : e \in {x \in pairs : x[2] = h}}]

SearchHrefIndex == HrefIndex(HrefPairs(SearchPath, LinkArgs))

\* The server's parse of the query string of a /search href: the args it spells.
ParseHref(href) == IF href \in DOMAIN SearchHrefIndex THEN SearchHrefIndex[href] ELSE {}

LinksOf(r) == IF r.payload.kind = "FeatureCollection" THEN r.payload.links ELSE <<>>

\* The client follows the link `rel` of the search response it holds: the same
\* transport shape, the link's href, and for POST the link's body.
Follow(rel) ==
    /\ pc = "idle"
    /\ request.route = "search"
    /\ \E i \in 1..Len(LinksOf(response)) :
         LET link == LinksOf(response)[i]
         IN  /\ link.rel = rel
             /\ \E a \in ParseHref(link.href) :
                  IF request.method = "POST"
                  THEN Begin(Req("search", "POST", a, TRUE, link.body,
                                 request.accept_encoding, TRUE))
                  ELSE Begin(Req("search", "GET", a, FALSE, EmptyJson,
                                 request.accept_encoding, TRUE))

FollowNext ==
    /\ chain.stage = "none"
    /\ Follow("next")
    /\ chain' = [stage |-> "next", origin |-> storeCalls[1].q]

FollowPrev ==
    /\ chain.stage = "next"
    /\ Follow("prev")
    /\ chain' = [stage |-> "prev", origin |-> chain.origin]

\* ----------------------------------------------------------- specifications
Next ==
    \/ Receive
    \/ Discard
    \/ stac_search
    \/ collection_items
    \/ collections_id
    \/ items_id
    \/ conformance
    \/ list_schema
    \/ handle_exception
    \/ handle_exception_bbox
    \/ after_request
    \/ teardown_appcontext
    \/ FollowNext
    \/ FollowPrev

Spec == Init /\ [][Next]_vars

\* One worker runs a request to its end: no step of the request is postponed for ever.
FairSpec == Spec /\ WF_vars(Next)

\* ------------------------------------------- after_request on any response
FilterEncodings ==
    {Chars(w) : w \in {"", "gzip", "GZip", "br", "gzi", "br, GZIP", "x-gzip"}}

\* Any response a view, an error handler or send_from_directory can hand to the filter;
\* one that carries Content-Encoding: gzip holds a body gzipped once already.
FilterResponses ==
    {[status |-> st, payload |-> [kind |-> "any"], len |-> n,
      gz |-> IF ce = Some("gzip") THEN 1 ELSE 0, direct_passthrough |-> dp,
      headers |-> <<<<"Content-Length", IntStr(n)>>>>
                  \o (IF ce = None THEN <<>> ELSE <<<<"Content-Encoding", ce[1]>>>>)] :
        st \in {199, 200, 299, 300, 404},
        n \in {0, COMPRESS_MIN - 1, COMPRESS_MIN, COMPRESS_MIN + 1},
        dp \in BOOLEAN,
        ce \in Opt({"gzip", "br"})}

InitFilter ==
    /\ pc = "responded"
    /\ request \in {Req("conformance", "GET", <<>>, FALSE, EmptyJson, ae, TRUE) :
                      ae \in FilterEncodings}
    /\ response \in FilterResponses
    /\ exc = NoExc
    /\ session = "none"
    /\ storeCalls = <<>>
    /\ items = NoPage
    /\ chain = NoChain
    /\ passes = 0

\* The filtered response is handed to the filter once more.
Again ==
    /\ pc = "filtered"
    /\ passes < MaxPasses
    /\ pc' = "responded"
    /\ UNCHANGED <<request, exc, response, session, storeCalls, items, chain, passes>>

NextFilter ==
    \/ after_request
    \/ Again

SpecFilter == InitFilter /\ [][NextFilter]_vars

\* ------------------------------------------------------------------ claims
\* The request has passed its view or error handler: a response exists.
Answered == pc \in {"responded", "filtered"} \/ (pc = "idle" /\ request # NoRequest)

Paged == Answered /\ response.payload.kind = "FeatureCollection"

RelCount(links, rel) == Cardinality({i \in 1..Len(links) : links[i].rel = rel})

\* Every spelling of "gzip" in upper and lower case.
GzipSpellings ==
    {<<g, z, i, p>> : g \in {"g", "G"}, z \in {"z", "Z"}, i \in {"i", "I"}, p \in {"p", "P"}}

\* The five conditions of the claim, stated on the response that enters the filter.
ShouldCompress(r, accept_encoding) ==
    /\ r.status \in 200..299
    /\ ~r.direct_passthrough
    /\ r.len >= COMPRESS_MIN
    /\ \E w \in GzipSpellings : PyIn(w, accept_encoding)
    /\ HeaderValues(r.headers, "Content-Encoding") = <<>>

FilterStep == pc = "responded" /\ pc' = "filtered"

\* C1: a pass through after_request gzips the body exactly when the status is in
\* [200,300), the response is no direct passthrough, the body has at least 500 bytes,
\* Accept-Encoding contains "gzip" in any case and no Content-Encoding is set; then
\* Content-Encoding is gzip and Content-Length is the compressed length; otherwise
\* the body is left as it is; and no body is ever gzipped twice by the filter.
C1_CompressIffAllFive ==
    [][FilterStep =>
         /\ (response'.gz = response.gz + 1)
              <=> ShouldCompress(response, request.accept_encoding)
         /\ response'.gz # response.gz + 1
              => response'.gz = response.gz /\ response'.len = response.len
         /\ response'.gz = response.gz + 1
              => /\ HeaderValues(response'.headers, "Content-Encoding")
                      = <<<<"Content-Encoding", "gzip">>>>
                 /\ HeaderValues(response'.headers, "Content-Length")
                      = <<<<"Content-Length", IntStr(response'.len)>>>>
                 /\ response'.len \in GzipLens(response.len)
         /\ response.len = COMPRESS_MIN - 1 => response'.gz = response.gz
         /\ response'.gz <= 1]_vars

\* A body of exactly 500 bytes was compressed on the first pass, and the second pass
\* left it alone.
C1_Witness ==
    /\ pc = "filtered"
    /\ passes = 2
    /\ response.gz = 1
    /\ response.status = 200
    /\ response.len \in GzipLens(COMPRESS_MIN)
    /\ request.accept_encoding = Chars("br, GZIP")
    /\ HeaderHas(response.headers, "Content-Encoding")

\* C2: a paginated response (collection items or search) holds exactly one link of rel
\* next when the store's Page has has_next and none otherwise, and the same for prev
\* and has_prev.
C2_LinksIffHasNextPrev ==
    Paged =>
      /\ RelCount(response.payload.links, "next") = (IF items.has_next THEN 1 ELSE 0)
      /\ RelCount(response.payload.links, "prev") = (IF items.has_prev THEN 1 ELSE 0)
      /\ \A i \in 1..Len(response.payload.links) :
           response.payload.links[i].rel \in {"next", "prev"}

\* A collection-items response with both links.
C2_Witness ==
    /\ Paged
    /\ request.route = "collection_items"
    /\ items.has_next /\ items.has_prev
    /\ Len(response.payload.links) = 2

PostPaged == Paged /\ request.route = "search" /\ request.method = "POST"

NumOf(rel) == IF rel = "next" THEN items.next_num ELSE items.prev_num

\* body is json with page overwritten by num and nothing else changed.
PageOverwritten(body, json, num) ==
    /\ DOMAIN body = DOMAIN json \cup {"page"}
    /\ body["page"] = [int |-> num]
    /\ \A k \in DOMAIN json \ {"page"} : body[k] = json[k]

PostLinkMembers(link) ==
    /\ DOMAIN link = {"href", "rel", "body", "method", "merge"}
    /\ link.method = "POST"
    /\ link.merge = TRUE
    /\ PageOverwritten(link.body, request.json, NumOf(link.rel))

\* C3 as stated: every next/prev link of a POST /search response has the bare
\* endpoint path as href whatever query string the POST carried, method POST, merge
\* true and the body with page overwritten.
C3_PostLinkBareHref ==
    PostPaged =>
      \A i \in 1..Len(response.payload.links) :
        /\ response.payload.links[i].href = BASE_URL \o SearchPath
        /\ PostLinkMembers(response.payload.links[i])

\* C3 as amended: the href of a POST link is the endpoint path followed by the query
\* string the POST request itself carried, unchanged (the bare path when it carried
\* none); method, merge and body are as stated, and the view leaves the request (its
\* JSON body included) as it was.
C3_PostLinkKeepsQuery ==
    /\ [](PostPaged =>
            \A i \in 1..Len(response.payload.links) :
              /\ response.payload.links[i].href
                   = BASE_URL \o SearchPath
                     \o (IF request.args = <<>> THEN "" ELSE "?" \o url_encode(request.args))
              /\ request.args = <<>> => response.payload.links[i].href = BASE_URL \o SearchPath
              /\ PostLinkMembers(response.payload.links[i]))
    /\ [][pc = "dispatch" => request' = request]_vars

\* A POST /search that carried a query string and a page, answered with both links.
C3_Witness ==
    /\ PostPaged
    /\ request.args # <<>>
    /\ "page" \in DOMAIN request.json
    /\ Len(response.payload.links) = 2

GetPaged == Paged /\ request.method = "GET"

ItemsLinkArgs ==
    ItemsArgs \cup {ArgSet(a, "page", IntStr(n)) : a \in ItemsArgs, n \in LinkInts}

ItemsHrefIndex == HrefIndex(HrefPairs(ItemsPath, ItemsLinkArgs))

\* The parameters href spells after the path of the request's route.
LinkQuery(href) ==
    IF request.route = "search" THEN ParseHref(href)
    ELSE IF href \in DOMAIN ItemsHrefIndex THEN ItemsHrefIndex[href] ELSE {}

\* a is orig with page set to num and every other parameter kept.
PageReplaced(a, orig, num) ==
    /\ ArgKeys(a) = ArgKeys(orig) \cup {"page"}
    /\ Len(a) = Cardinality(ArgKeys(a))
    /\ ArgGet(a, "page") = Some(IntStr(num))
    /\ \A k \in ArgKeys(orig) \ {"page"} : ArgGet(a, k) = ArgGet(orig, k)

\* C4: in a GET response (search or collection items) the href of the next link spells
\* the request's own parameters with page = next_num, the href of the prev link the same
\* with page = prev_num, every other parameter kept, also when both are emitted.
C4_GetLinkKeepsParams ==
    GetPaged =>
      \A i \in 1..Len(response.payload.links) :
        LET link == response.payload.links[i]
        IN  /\ DOMAIN link = {"href", "rel"}
            /\ LinkQuery(link.href) # {}
            /\ \A a \in LinkQuery(link.href) : PageReplaced(a, request.args, NumOf(link.rel))

\* A GET /search with three other parameters and a page, answered with both links.
C4_Witness ==
    /\ GetPaged
    /\ request.route = "search"
    /\ ArgKeys(request.args) = {"bbox", "ids", "page", "limit"}
    /\ Len(response.payload.links) = 2
    /\ items.next_num # items.prev_num

\* The view of the request has run (it returned or raised).
Viewed == pc = "raised" \/ Answered

Searched == Viewed /\ request.route = "search"

\* C5 as stated: the request a next link describes is answered with a prev link, and
\* the request that prev link describes hands the store the query of the request the
\* next link came from.
C5_RoundTrip ==
    /\ (chain.stage = "next" /\ Paged) => RelCount(response.payload.links, "prev") = 1
    /\ (chain.stage = "prev" /\ Searched) =>
         /\ storeCalls # <<>>
         /\ storeCalls[1].q = chain.origin

\* The same for a round trip that starts at a page N >= 1: it holds.
C5_RoundTripFromPageOne ==
    (chain.stage # "none" /\ chain.origin # None /\ chain.origin[1].page >= 1) => C5_RoundTrip

\* A round trip from page 1 completed, over POST.
C5_RoundTripDone ==
    /\ chain.stage = "prev"
    /\ Paged
    /\ request.method = "POST"
    /\ chain.origin[1].page = 1

\* A JSON scalar as a client writes it in a query string.
ScalarStr(x) == IF "int" \in DOMAIN x THEN IntStr(x.int) ELSE x.str

\* The body has an equivalent query string: no POST-only member, no null.
HasGetForm(j) ==
    /\ DOMAIN j \cap {"intersects", "query"} = {}
    /\ \A k \in DOMAIN j \cap {"page", "limit"} : "null" \notin DOMAIN j[k]

OptStr(j, k) == IF k \in DOMAIN j THEN Some(PyJoin(",", j[k])) ELSE None

\* The query string equivalent to a JSON body: lists comma-joined, numbers in decimal.
GetForm(j) ==
    ArgsOf([bbox |-> IF "bbox" \in DOMAIN j THEN Some(PyJoin(",", StrEach(j.bbox))) ELSE None,
            datetime |-> JsonGet(j, "datetime"),
            ids |-> OptStr(j, "ids"),
            collections |-> OptStr(j, "collections"),
            page |-> IF "page" \in DOMAIN j THEN Some(ScalarStr(j.page)) ELSE None,
            limit |-> IF "limit" \in DOMAIN j THEN Some(ScalarStr(j.limit)) ELSE None,
            access_token |-> None])

\* <<query string, body>> for the bodies that have an equivalent query string.
GetFormTable == {<<GetForm(j), j>> : j \in {b \in SearchBodies : HasGetForm(b)}}

\* This request did what the arguments `a` of its equivalent in the other transport
\* ask for: the same store call, or the same exception before any.
SameAs(a) ==
    IF a.exc # NoExc THEN storeCalls = <<>> /\ exc = a.exc
    ELSE storeCalls = <<StoreCall(a.q)>>

\* C6: a /search request and its equivalent in the other transport (GET query string
\* of comma-joined strings, POST JSON body of lists) hand the store identical
\* arguments, absent members included.
C6_TransportIndependent ==
    Searched =>
      /\ (request.method = "POST" /\ request.is_json /\ HasGetForm(request.json))
           => SameAs(SearchArgsGet(GetForm(request.json)))
      /\ request.method = "GET"
           => \A e \in GetFormTable : e[1] = request.args => SameAs(SearchArgsPost(e[2]))

\* A POST with every member that has a GET form, and the store called.
C6_Witness ==
    /\ Searched
    /\ request.method = "POST"
    /\ DOMAIN request.json = {"bbox", "datetime", "ids", "collections", "page", "limit"}
    /\ HasGetForm(request.json)
    /\ storeCalls # <<>>
    /\ storeCalls[1].q[1].limit = 1

\* C7: a failure is answered with exactly {code, description}: code "400" and status
\* 400 for an invalid bounding box; the failure's own status and description for an
\* HTTP failure; 500 and "Internal Server Error" for anything else; a numeric code is
\* the status.
C7_ErrorShape ==
    (Answered /\ exc # NoExc) =>
      /\ response.payload.kind = "error"
      /\ DOMAIN response.payload.body = {"code", "description"}
      /\ LET b == response.payload.body
         IN  /\ exc.cls = "InvalidBoundingBoxError"
                  => b.code = [str |-> "400"] /\ response.status = 400
             /\ exc.cls = "HTTPException"
                  => /\ b.code = [int |-> exc.code]
                     /\ b.description = exc.description
                     /\ response.status = exc.code
             /\ exc.cls \notin {"InvalidBoundingBoxError", "HTTPException"}
                  => /\ b.code = [int |-> 500]
                     /\ b.description = "Internal Server Error"
                     /\ b.description # exc.description
                     /\ response.status = 500
             /\ "int" \in DOMAIN b.code => response.status = b.code.int

\* An invalid bounding box answered.
C7_Witness ==
    /\ Answered
    /\ exc.cls = "InvalidBoundingBoxError"
    /\ response.status = 400

\* page or limit of the request is not integer-coercible.
NotCoercible(req) ==
    /\ req.route = "search"
    /\ \/ /\ req.method = "GET"
          /\ ~(ArgInt(req.args, "page", DEFAULT_PAGE).ok
               /\ ArgInt(req.args, "limit", DEFAULT_LIMIT).ok)
       \/ /\ req.method = "POST" /\ req.is_json
          /\ ~(JsonInt(req.json, "page", DEFAULT_PAGE).ok
               /\ JsonInt(req.json, "limit", DEFAULT_LIMIT).ok)

\* C8 as stated: a /search whose page or limit is not integer-coercible is answered
\* with status 400 and the store is not queried.
C8_NonIntegerIs400 ==
    (Answered /\ NotCoercible(request)) => response.status = 400 /\ storeCalls = <<>>

\* C9 as stated: every query /search hands the store has page >= 1 and limit >= 1.
C9_PageAndLimitPositive ==
    \A i \in 1..Len(storeCalls) :
      (request.route = "search" /\ storeCalls[i].q # None)
        => storeCalls[i].q[1].page >= 1 /\ storeCalls[i].q[1].limit >= 1

\* C10: the session lives for one request: it is released by the teardown that ends
\* the request and by nothing else, no session is held between requests, and a
\* session acquired is eventually released, whatever the request's exit path.
C10_SessionPerRequest ==
    /\ [](pc = "idle" => session = "none")
    /\ [][(session = "active" /\ session' = "none") => (pc = "filtered" /\ pc' = "idle")]_vars
    /\ [][pc' = "dispatch" => session = "none"]_vars
    /\ (session = "active") ~> (session = "none")

\* A request whose store query failed (answered 500) has ended and its session is gone.
C10_Witness ==
    /\ pc = "idle"
    /\ exc.cls = "OperationalError"
    /\ response.status = 500
    /\ storeCalls # <<>>
    /\ session = "none"

====
